---- MODULE Spec2Model ----
(***************************************************************************)
(* A model of the two computational kernels of DSP-1-Signals:              *)
(*   is_periodic       (src/complex_sinusoids.py)                          *)
(*   decompose_signal  (src/signal_decomposition.py), together with the    *)
(*   verification slice of plot_signal_decomposition.                      *)
(*                                                                         *)
(* Numbers.                                                                *)
(*  - A frequency omega is held as the exact number of cycles per sample   *)
(*    omega/(2*pi) = p/q + e * 1e-11, a record [p, q, e, irr]: p/q is a    *)
(*    fraction (q > 0), e an offset counted in units of 1e-11 cycle, so    *)
(*    that the tolerance 1e-10 of the source is 10 units. irr marks the    *)
(*    two irrational frequencies of the drivers (1.0 rad and pi*sqrt2/2),  *)
(*    for which p/q is the ratio rounded to six decimals; the rounding     *)
(*    error times any candidate period of the model stays far below the    *)
(*    distance of omega*N/(2*pi) to an integer.                            *)
(*    The rounding error of the double-precision k of line 49 is the       *)
(*    variable rnd, one error per candidate N, in the same units.          *)
(*  - An amplitude (a float in the source) is held in fixed point with     *)
(*    unit 1/2: the integer sample v is stored as 2*v, and 0.5*y is y/2.   *)
(*    This is exact for integer samples: 1.5 is stored as 3.               *)
(***************************************************************************)
EXTENDS Integers, Sequences, FiniteSets

VARIABLES omega, max_N, rnd, cand, ppc, presult,
          x, n, i, n_extended, x_extended, x_even, x_odd,
          x_recon_positive, dpc

pvars == <<omega, max_N, rnd, cand, ppc, presult>>
dvars == <<x, n, i, n_extended, x_extended, x_even, x_odd, x_recon_positive, dpc>>
vars == <<omega, max_N, rnd, cand, ppc, presult,
          x, n, i, n_extended, x_extended, x_even, x_odd, x_recon_positive, dpc>>

---------------------------------------------------------------------------
(* Bounds of the model *)

\* largest |p| of a frequency 2*pi*p/q
MaxK == 3
\* largest denominator q of a frequency 2*pi*p/q
MaxQ == 8
\* largest search bound max_N passed to is_periodic
MaxBound == 9
\* longest signal of the general input family
MaxLen == 2
\* sample indices of the general family range over -MaxIdx..MaxIdx
MaxIdx == 2
\* sample values of the general family range over -1..MaxVal
MaxVal == 1
\* the symmetric family has indices -M..M for M in 0..MaxHalf
MaxHalf == 2

---------------------------------------------------------------------------
(* Arithmetic helpers *)

Abs(a) == IF a < 0 THEN -a ELSE a

Min(a, b) == IF a < b THEN a ELSE b

Max(a, b) == IF a > b THEN a ELSE b

---------------------------------------------------------------------------
(* is_periodic, src/complex_sinusoids.py lines 24-53 *)

\* the tolerance 1e-10 of line 50, in units of 1e-11
TolE11 == 10

\* the period returned with False (None, line 53)
None == 0

\* Line 49 is computed in double precision.  Forming omega = 2*pi*k/N and
\* then omega*N/(2*pi) takes four roundings, a relative error below
\* 4 * 2^-53 < 4.5e-16: while |omega*N/(2*pi)| is below SafeMagnitude the
\* error stays below the tolerance and cannot turn an integer into a
\* non-integer; the frequencies with an offset e have a magnitude below
\* 100, where the error is below 1e-13
SafeMagnitude == 225000

\* beyond SafeMagnitude the computed k may be exact or off by a unit in the
\* last place; from 2^19 on that unit is 1.16e-10, above the tolerance
LostE11 == 12

\* the rounding errors (in units of 1e-11) line 49 can make for candidate N
RoundingErrors(om, N) ==
    IF Abs(om.p * N) \div om.q < SafeMagnitude THEN {0} ELSE {0, LostE11}

\* the factor 2 of 2*pi forgotten: k = omega * N / np.pi
KValueMutant(om, N, err) ==
    [num |-> 2 * om.p * N, den |-> om.q, tiny |-> 2 * om.e * N + err]

\* k = omega * N / (2 * np.pi), line 49: the computed value is
\* num/den + tiny * 1e-11, err being the rounding error
KValue(om, N, err) == [num |-> om.p * N, den |-> om.q, tiny |-> om.e * N + err]

\* round(k), line 50, as the set of integers it can be: the integer
\* nearest to the double k.  Off a tie of num/den that is the integer
\* nearest to num/den.  At a tie (num/den a half-integer) the 1e-11 part
\* decides when it is not zero; when it is zero the double k of line 49 may
\* sit on the tie (Python's round then takes the even integer) or one unit
\* in the last place beside it (7.499999999999999 for 15/2,
\* 6.500000000000001 for 13/2), an error below the model's unit, so round(k)
\* is either neighbour
RoundK(k) ==
    LET fl == k.num \div k.den
        r  == k.num % k.den
    IN  IF 2 * r < k.den THEN {fl}
        ELSE IF 2 * r > k.den THEN {fl + 1}
        ELSE IF k.tiny > 0 THEN {fl + 1}
        ELSE IF k.tiny < 0 THEN {fl}
        ELSE {fl, fl + 1}

\* abs(k - round(k)) < 1e-10, line 50.  k - round(k) is
\* (num - round*den)/den + tiny*1e-11; when the fraction is not zero it is
\* at least 1/den in size, which no tiny part of the model brings below
\* 1e-10; when it is zero the tiny part alone is compared.  At a tie the
\* fraction is 1/2 in size for either value of round(k)
IsEssentiallyInteger(k) ==
    \E rd \in RoundK(k) :
        LET rest == k.num - rd * k.den
        IN  rest = 0 /\ Abs(k.tiny) < TolE11

\* the loop test mutated: exact comparison, no tolerance
IsExactlyIntegerMutant(om, N, err) ==
    LET k == KValue(om, N, err) IN k.num % k.den = 0 /\ k.tiny = 0

\* the test of line 50 for candidate N
CandidateMatches(om, N, err) == IsEssentiallyInteger(KValue(om, N, err))

\* the whole function as a value: the first N in from..bound that matches;
\* r[N] is the rounding error made for candidate N
RECURSIVE Scan(_, _, _, _)
Scan(om, from, bound, r) ==
    IF from > bound THEN <<FALSE, None>>
    ELSE IF CandidateMatches(om, from, r[from]) THEN <<TRUE, from>>
    ELSE Scan(om, from + 1, bound, r)

is_periodic(om, bound, r) == Scan(om, 1, bound, r)

\* the offsets e of the frequencies 2*pi*(p/q + e*1e-11): 3e-11 is within
\* the tolerance for N <= 3 and beyond it from N = 4 on
Offsets == {-3, 0, 3}

\* the frequencies 2*pi*p/q (+ offset), p and q small integers; they include
\* pi/4, pi/3, pi/2, pi, 2*pi/3 of lines 157-161
RationalOmegas ==
    { [p |-> pp, q |-> qq, e |-> ee, irr |-> FALSE] :
        pp \in -MaxK..MaxK, qq \in 1..MaxQ, ee \in Offsets }

\* the frequencies 2*pi*k/N with |k| = 10^5 and |k| = 10^6 + 1
LargeOmegas ==
    { [p |-> pp, q |-> qq, e |-> 0, irr |-> FALSE] :
        pp \in {-1000001, -100000, 100000, 1000001}, qq \in {1, 3} }

\* 1.0 rad (line 163): 1/(2*pi) = 0.159155;  pi*sqrt(2)/2 (line 162):
\* sqrt(2)/4 = 0.353553
IrrationalOmegas ==
    { [p |-> 159155, q |-> 1000000, e |-> 0, irr |-> TRUE],
      [p |-> 353553, q |-> 1000000, e |-> 0, irr |-> TRUE] }

Omegas == RationalOmegas \cup LargeOmegas \cup IrrationalOmegas

Bounds == -1..MaxBound

\* no rounding error for any candidate
NoRounding(bound) == [N \in 1..bound |-> 0]

\* the rounding errors of one call: one error per candidate, each among
\* those line 49 can make
Roundings(om, bound) ==
    IF \A N \in 1..bound : RoundingErrors(om, N) = {0}
    THEN {NoRounding(bound)}
    ELSE { f \in [1..bound -> {0, LostE11}] :
             \A N \in 1..bound : f[N] \in RoundingErrors(om, N) }

\* the decomposer at rest, while the periodicity checker runs
DIdle ==
    /\ x = <<>> /\ n = <<>> /\ i = 0
    /\ n_extended = <<>> /\ x_extended = <<>>
    /\ x_even = <<>> /\ x_odd = <<>> /\ x_recon_positive = <<>>
    /\ dpc = "idle"

\* a call is_periodic(omega, max_N): N = 1 is the first candidate (line 47)
PInit ==
    /\ omega \in Omegas
    /\ max_N \in Bounds
    /\ rnd \in Roundings(omega, max_N)
    /\ cand = 1
    /\ ppc = "loop"
    /\ presult = <<FALSE, None>>
    /\ DIdle

\* lines 47-50: candidate N fails the test, the loop goes on to N + 1
NextCandidate ==
    /\ ppc = "loop"
    /\ cand <= max_N
    /\ ~CandidateMatches(omega, cand, rnd[cand])
    /\ cand' = cand + 1
    /\ UNCHANGED <<omega, max_N, rnd, ppc, presult>>
    /\ UNCHANGED dvars

\* lines 50-51: candidate N passes the test, return True, N
ReturnPeriodic ==
    /\ ppc = "loop"
    /\ cand <= max_N
    /\ CandidateMatches(omega, cand, rnd[cand])
    /\ presult' = <<TRUE, cand>>
    /\ ppc' = "done"
    /\ UNCHANGED <<omega, max_N, rnd, cand>>
    /\ UNCHANGED dvars

\* line 53: range(1, max_N + 1) is exhausted (at once when max_N <= 0),
\* return False, None
ReturnNotPeriodic ==
    /\ ppc = "loop"
    /\ cand > max_N
    /\ presult' = <<FALSE, None>>
    /\ ppc' = "done"
    /\ UNCHANGED <<omega, max_N, rnd, cand>>
    /\ UNCHANGED dvars

PNext == NextCandidate \/ ReturnPeriodic \/ ReturnNotPeriodic

SpecPeriodic == PInit /\ [][PNext]_vars

---------------------------------------------------------------------------
(* decompose_signal, src/signal_decomposition.py lines 18-56 *)

\* an integer sample stored in a float array: fixed point, unit 1/2
Fix(v) == 2 * v

\* 0.5 forgotten
HalfMutant(y) == y

\* 0.5 * y of lines 53-54, on fixed-point values; y is a sum or difference
\* of two stored samples, hence even
Half(y) == y \div 2

\* np.arange(-N+1, N), line 40: empty when N = 0
Arange(N) == [j \in 1..Max(2 * N - 1, 0) |-> j - N]

\* np.zeros(len(n_extended)), line 43
Zeros(len) == [j \in 1..len |-> 0]

\* the flip forgotten
FlipMutant(a) == a

\* np.flip, lines 53-54
Flip(a) == [j \in 1..Len(a) |-> a[Len(a) + 1 - j]]

\* the subscript off by one
SubscriptMutant(N, ni) == N + ni

\* the subscript N-1+n[i] of lines 48 and 50 (the two branches of the
\* test n[i] >= 0 are the same statement), 0-based
Subscript(N, ni) == IF ni >= 0 THEN N - 1 + ni ELSE N - 1 + ni

\* numpy's subscript rule for an array of length len: a subscript in
\* -len..-1 counts from the end, one outside -len..len-1 raises IndexError
InRange(idx, len) == -len <= idx /\ idx < len

Resolve(idx, len) == IF idx < 0 THEN idx + len ELSE idx

\* x_even and x_odd of lines 53-54
EvenPart(ext) == [j \in 1..Len(ext) |-> Half(ext[j] + Flip(ext)[j])]

OddPart(ext) == [j \in 1..Len(ext) |-> Half(ext[j] - Flip(ext)[j])]

\* a Python slice a[lo:hi] with 0 <= lo, clipped to the array
Slice(a, lo, hi) ==
    LET top == Min(hi, Len(a))
    IN  [j \in 1..Max(top - lo, 0) |-> a[lo + j]]

\* lines 100-103 of plot_signal_decomposition: the reconstructed slice
ReconPositive(xe, xo, next, nn) ==
    LET x_reconstructed == [j \in 1..Len(xe) |-> xe[j] + xo[j]]
        start_idx == Len(next) \div 2
    IN  Slice(x_reconstructed, start_idx, start_idx + Len(nn))

---------------------------------------------------------------------------
(* The signals the decomposer is called with *)

Vals == -1..MaxVal

Idx == -MaxIdx..MaxIdx

StrictlyAscending(s) == \A a \in 1..Len(s) - 1 : s[a] < s[a + 1]

\* equal lengths, indices in any order, repeated or not
GeneralSignals ==
    UNION { { [x |-> xs, n |-> ns] : xs \in [1..L -> Vals], ns \in [1..L -> Idx] } :
            L \in 0..MaxLen }

\* len(n) one less or one more than len(x), indices ascending
MismatchedSignals ==
    UNION { { [x |-> xs, n |-> ns] :
                xs \in [1..L -> Vals],
                ns \in { s \in [1..(L - 1) -> Idx] \cup [1..(L + 1) -> Idx] :
                         StrictlyAscending(s) } } :
            L \in 1..MaxLen }

\* indices -M..M
SymmetricSignals ==
    UNION { { [x |-> xs, n |-> [j \in 1..(2 * M + 1) |-> j - M - 1]] :
                xs \in [1..(2 * M + 1) -> {-1, 0, 1}] } :
            M \in 0..MaxHalf }

\* example_1_arbitrary_signal, lines 122-123
Example1 == [x |-> <<2, 1, -1, 3, 2>>, n |-> <<0, 1, 2, 3, 4>>]

\* The samples of examples 2 and 3 are doubles that are no integers.  They
\* are held in units of 1e-8, by an encoding that keeps sign, order, zero
\* and distinctness: two different doubles get two different integers, and
\* a double that is not zero gets an integer that is not zero (the
\* decomposer only adds, subtracts and halves samples, and the verification
\* only compares them).

\* example_2_exponential_signal, lines 144-146: 0.8^n for n = 0..5, that is
\* 1.0, 0.8, 0.6400000000000001, 0.5120000000000001, 0.4096000000000001,
\* 0.3276800000000001
Example2 ==
    [x |-> <<100000000, 80000000, 64000000, 51200000, 40960000, 32768000>>,
     n |-> <<0, 1, 2, 3, 4, 5>>]

\* example_3_sinusoidal_signal, lines 160-162: sin(pi/4 * n) for n = -5..5
\* in double precision.  sin(pi/4) = sin(5*pi/4) in size =
\* 0.7071067811865475 is held as 70710678, sin(3*pi/4) = 0.7071067811865476
\* (one unit in the last place more) as 70710679, and sin(pi) =
\* 1.2246467991473532e-16, which is not zero, as 1 (sin(-pi) as -1)
Example3 ==
    [x |-> <<70710678, -1, -70710679, -100000000, -70710678, 0,
             70710678, 100000000, 70710679, 1, -70710678>>,
     n |-> <<-5, -4, -3, -2, -1, 0, 1, 2, 3, 4, 5>>]

DriverSignals == {Example1, Example2, Example3}

\* three samples on ascending indices with gaps, within -4..4
SparseSignals ==
    { [x |-> <<2, 1, -1>>, n |-> ns] :
        ns \in { t \in [1..3 -> -4..4] : StrictlyAscending(t) } }

Signals ==
    GeneralSignals \cup MismatchedSignals \cup SymmetricSignals \cup SparseSignals
        \cup DriverSignals

\* the periodicity checker at rest, while the decomposer runs
PIdle ==
    /\ omega = [p |-> 0, q |-> 1, e |-> 0, irr |-> FALSE]
    /\ max_N = 0 /\ rnd = <<>> /\ cand = 0 /\ ppc = "idle" /\ presult = <<FALSE, None>>

\* a call decompose_signal(x, n): lines 39-43 done, the loop of line 46
\* about to take its first sample (i counts from 1 here)
DInit ==
    /\ \E sig \in Signals : x = sig.x /\ n = sig.n
    /\ i = 1
    /\ n_extended = Arange(Len(x))
    /\ x_extended = Zeros(Len(Arange(Len(x))))
    /\ x_even = <<>> /\ x_odd = <<>> /\ x_recon_positive = <<>>
    /\ dpc = "place"
    /\ PIdle

\* lines 46-50, one iteration: x_extended[N-1+n[i]] = sample
PlaceSample ==
    /\ dpc = "place"
    /\ i <= Len(x)
    /\ i <= Len(n)
    /\ InRange(Subscript(Len(x), n[i]), Len(x_extended))
    /\ x_extended' = [x_extended EXCEPT
                        ![Resolve(Subscript(Len(x), n[i]), Len(x_extended)) + 1] = Fix(x[i])]
    /\ i' = i + 1
    /\ UNCHANGED <<x, n, n_extended, x_even, x_odd, x_recon_positive, dpc>>
    /\ UNCHANGED pvars

\* line 47: n[i] read past the end of n raises IndexError
IndexErrorN ==
    /\ dpc = "place"
    /\ i <= Len(x)
    /\ i > Len(n)
    /\ dpc' = "IndexError"
    /\ UNCHANGED <<x, n, i, n_extended, x_extended, x_even, x_odd, x_recon_positive>>
    /\ UNCHANGED pvars

\* lines 48/50: the subscript is outside x_extended, IndexError
IndexErrorExtended ==
    /\ dpc = "place"
    /\ i <= Len(x)
    /\ i <= Len(n)
    /\ ~InRange(Subscript(Len(x), n[i]), Len(x_extended))
    /\ dpc' = "IndexError"
    /\ UNCHANGED <<x, n, i, n_extended, x_extended, x_even, x_odd, x_recon_positive>>
    /\ UNCHANGED pvars

\* lines 53-56: the loop is over; even and odd parts, return
ComputeParts ==
    /\ dpc = "place"
    /\ i > Len(x)
    /\ x_even' = EvenPart(x_extended)
    /\ x_odd' = OddPart(x_extended)
    /\ dpc' = "done"
    /\ UNCHANGED <<x, n, i, n_extended, x_extended, x_recon_positive>>
    /\ UNCHANGED pvars

\* plot_signal_decomposition lines 99-103, on the arrays line 72 received
PlotVerification ==
    /\ dpc = "done"
    /\ x_recon_positive' = ReconPositive(x_even, x_odd, n_extended, n)
    /\ dpc' = "plotted"
    /\ UNCHANGED <<x, n, i, n_extended, x_extended, x_even, x_odd>>
    /\ UNCHANGED pvars

DNext ==
    PlaceSample \/ IndexErrorN \/ IndexErrorExtended \/ ComputeParts \/ PlotVerification

SpecDecompose == DInit /\ [][DNext]_vars

\* either kernel, called once
Init == PInit \/ DInit

Next == PNext \/ DNext

Spec == Init /\ [][Next]_vars

---------------------------------------------------------------------------
(* Vocabulary of the claims (stated apart from the code's own steps) *)

\* omega*N is exactly an integer multiple of 2*pi
ExactMultiple(om, N) == ~om.irr /\ om.e = 0 /\ (om.p * N) % om.q = 0

\* omega*N/(2*pi), as computed with rounding error err, lies within 1e-10
\* of an integer: the fraction p*N/q is an integer and the offset
\* e*N*1e-11 plus the error is below 1e-10
WithinTolerance(om, N, err) == (om.p * N) % om.q = 0 /\ Abs(om.e * N + err) < 10

\* the greatest common divisor, gcd(0, b) = |b|
RECURSIVE GCD(_, _)
GCD(a, b) == IF b = 0 THEN Abs(a) ELSE GCD(b, a % Abs(b))

SmallestOf(S) == CHOOSE m \in S : \A o \in S : m <= o

PReturned == ppc = "done"

\* the preconditions of decompose_signal
ValidSignal(xs, ns) == Len(xs) = Len(ns) /\ StrictlyAscending(ns)

DReturned == dpc \in {"done", "plotted"}

DEnded == dpc \in {"done", "plotted", "IndexError"}

\* the original signal, zero-extended, at sample index m (fixed point)
ZeroExtendedAt(xs, ns, m) ==
    IF \E k \in 1..Len(ns) : k <= Len(xs) /\ ns[k] = m
    THEN Fix(xs[CHOOSE k \in 1..Len(ns) : k <= Len(xs) /\ ns[k] = m])
    ELSE 0

\* indices -M..M, one sample each
SymmetricContiguous(xs, ns) ==
    /\ Len(xs) = Len(ns)
    /\ Len(ns) % 2 = 1
    /\ \A k \in 1..Len(ns) : ns[k] = k - (Len(ns) + 1) \div 2

IsOddSignal(xs) == \A k \in 1..Len(xs) : xs[k] = -xs[Len(xs) + 1 - k]

IsEvenSignal(xs) == \A k \in 1..Len(xs) : xs[k] = xs[Len(xs) + 1 - k]

---------------------------------------------------------------------------
(* Claims *)

\* C1: for every valid (x, n) -- equal lengths, n strictly ascending, not
\* necessarily from zero or contiguous -- decompose_signal returns, and
\* x_even + x_odd is the zero-extended original: x[k] at the slot of n[k],
\* 0 at every other slot, and every n[k] has a slot.
C1_SumIsZeroExtendedOriginal ==
    (DEnded /\ ValidSignal(x, n)) =>
        /\ DReturned
        /\ Len(x_even) = Len(n_extended) /\ Len(x_odd) = Len(n_extended)
        /\ \A j \in 1..Len(n_extended) :
              x_even[j] + x_odd[j] = ZeroExtendedAt(x, n, n_extended[j])
        /\ \A k \in 1..Len(n) :
              \E j \in 1..Len(n_extended) :
                  n_extended[j] = n[k] /\ x_even[j] + x_odd[j] = Fix(x[k])

\* C2 as stated: whenever decompose_signal returns, the three results have
\* length 2L-1, x_even is symmetric and x_odd antisymmetric about the
\* centre (mirror(i) = 2L-2-i, 0-based).
C2_LengthAndSymmetry ==
    DReturned =>
        LET L == Len(x) IN
        /\ Len(x_even) = 2 * L - 1
        /\ Len(x_odd) = 2 * L - 1
        /\ Len(n_extended) = 2 * L - 1
        /\ \A j \in 1..(2 * L - 1) :
              /\ x_even[j] = x_even[2 * L - j]
              /\ x_odd[j] = -x_odd[2 * L - j]

\* C2 amended: whenever decompose_signal returns with L >= 1 the three
\* results have length 2L-1 (for L = 0 all three are empty), x_even is
\* symmetric and x_odd antisymmetric about the centre, where x_odd is 0.
C2_LengthAndSymmetryAmended ==
    DReturned =>
        LET L == Len(x)
            W == IF L >= 1 THEN 2 * L - 1 ELSE 0
        IN
        /\ Len(x_even) = W
        /\ Len(x_odd) = W
        /\ Len(n_extended) = W
        /\ \A j \in 1..W :
              /\ x_even[j] = x_even[W + 1 - j]
              /\ x_odd[j] = -x_odd[W + 1 - j]
              /\ n_extended[j] = -n_extended[W + 1 - j]
        /\ L >= 1 => x_odd[L] = 0

\* C2 witness: a returned decomposition of a two-sample signal whose odd
\* part is not zero
C2_Witness ==
    dpc = "done" /\ Len(x) = 2 /\ Len(x_odd) = 3 /\ x_odd[1] # 0 /\ x_even[1] # 0

\* C3 as stated: is_periodic with max_N >= 1 returns (True, N) for the
\* smallest N in 1..max_N with omega*N an integer multiple of 2*pi, and
\* (False, None) if and only if there is no such N.
C3_SmallestExactMultiple ==
    (PReturned /\ max_N >= 1) =>
        LET S == { N \in 1..max_N : ExactMultiple(omega, N) } IN
        /\ S # {} => presult = <<TRUE, SmallestOf(S)>>
        /\ S = {} <=> presult = <<FALSE, None>>

\* C3 amended: is_periodic with max_N >= 1 scans N = 1, 2, ... in
\* ascending order and returns (True, N) for the smallest N in 1..max_N
\* whose k = omega*N/(2*pi), as computed in double precision, is within
\* 1e-10 of its nearest integer, stopping at that N; it returns
\* (False, None) if and only if no N in 1..max_N is such; a returned
\* period is an integer in 1..max_N.
C3_SmallestWithinTolerance ==
    /\ (ppc = "loop" /\ max_N >= 1) =>
          /\ cand \in 1..(max_N + 1)
          /\ \A N \in 1..(cand - 1) : ~WithinTolerance(omega, N, rnd[N])
    /\ (PReturned /\ max_N >= 1) =>
          LET S == { N \in 1..max_N : WithinTolerance(omega, N, rnd[N]) } IN
          /\ S # {} => (presult = <<TRUE, SmallestOf(S)>> /\ cand = presult[2])
          /\ S = {} <=> presult = <<FALSE, None>>
          /\ presult[1] => presult[2] \in 1..max_N

\* C3 witness: a period above 1 returned for a frequency that is only
\* within tolerance of 2*pi*p/q
C3_Witness ==
    PReturned /\ omega.e # 0 /\ presult[1] /\ presult[2] > 1

\* C4 as stated: for all integers k (any sign, zero, |k| >= N) and N > 0,
\* is_periodic(2*pi*k/N, max_N >= N) returns (True, N') with N' <= N,
\* N' a divisor of N, N' the smallest positive integer with k*N' divisible
\* by N, that is N / gcd(k, N); omega = 0 gives (True, 1) for any bound
\* >= 1, pi/4 gives (True, 8), pi/3 gives (True, 6).
C4_RationalFrequencyPeriod ==
    (PReturned /\ ~omega.irr /\ omega.e = 0) =>
        /\ max_N >= omega.q =>
              /\ presult[1]
              /\ presult[2] >= 1 /\ presult[2] <= omega.q
              /\ omega.q % presult[2] = 0
              /\ (omega.p * presult[2]) % omega.q = 0
              /\ \A m \in 1..(presult[2] - 1) : (omega.p * m) % omega.q # 0
              /\ presult[2] = omega.q \div GCD(omega.p, omega.q)
        /\ (omega.p = 0 /\ max_N >= 1) => presult = <<TRUE, 1>>
        /\ (omega.p = 1 /\ omega.q = 8 /\ max_N >= 8) => presult = <<TRUE, 8>>
        /\ (omega.p = 1 /\ omega.q = 6 /\ max_N >= 6) => presult = <<TRUE, 6>>

\* C4 amended: the same for all integers k with |k| <= 100000 (any sign,
\* zero, |k| >= N) and all integers N with 0 < N <= 1000000.  Beyond that
\* |k| the rounding of k in double precision can exceed the tolerance.
\* Beyond N = 10^10 a candidate m below N/gcd(k, N) can have k*m/N within
\* 1e-10 of an integer and is accepted first: 2*pi*3/10^11 is the frequency
\* [p = 0, e = 3] of Offsets, accepted at candidate 1.  For N <= 1000000 a
\* k*m/N that is not an integer is at least 1e-6 away from one, and for
\* |k| <= 100000 the rounding error is below 4.5e-11.
C4_RationalFrequencyPeriodAmended ==
    (PReturned /\ ~omega.irr /\ omega.e = 0
       /\ Abs(omega.p) <= 100000 /\ omega.q <= 1000000) =>
        /\ max_N >= omega.q =>
              /\ presult[1]
              /\ presult[2] >= 1 /\ presult[2] <= omega.q
              /\ omega.q % presult[2] = 0
              /\ (omega.p * presult[2]) % omega.q = 0
              /\ \A m \in 1..(presult[2] - 1) : (omega.p * m) % omega.q # 0
              /\ presult[2] = omega.q \div GCD(omega.p, omega.q)
        /\ (omega.p = 0 /\ max_N >= 1) => presult = <<TRUE, 1>>
        /\ (omega.p = 1 /\ omega.q = 8 /\ max_N >= 8) => presult = <<TRUE, 8>>
        /\ (omega.p = 1 /\ omega.q = 6 /\ max_N >= 6) => presult = <<TRUE, 6>>

\* C4 witness: a negative k whose fraction reduces, 2*pi*(-3)/6
C4_Witness ==
    PReturned /\ omega.p = -3 /\ omega.q = 6 /\ omega.e = 0 /\ max_N >= 6
    /\ presult = <<TRUE, 2>>

\* C5: is_periodic with max_period <= 0 fails with InvalidArgument; it
\* does not return a normal result after a loop of zero iterations.
C5_NonPositiveBoundFails ==
    (ppc # "idle" /\ max_N <= 0) => ~PReturned

\* C6: decompose_signal fails at once with InvalidArgument, returning no
\* arrays, when len(x) # len(n), n is not ascending, or n repeats an index.
C6_InvalidSignalFails ==
    (dpc # "idle" /\ ~ValidSignal(x, n)) => ~DReturned

\* C7 as stated: for x = [2,1,-1,3,2], n = [0..4]: n_extended = [-4..4],
\* x_even = [1,1.5,-0.5,0.5,2,0.5,-0.5,1.5,1] and
\* x_odd = [-1,-1.5,0.5,0.5,0,0.5,-0.5,1.5,1], from the extended array
\* [0,0,0,0,2,1,-1,3,2] and its reversal (amplitudes below in halves).
C7_Example1Values ==
    (DReturned /\ x = <<2, 1, -1, 3, 2>> /\ n = <<0, 1, 2, 3, 4>>) =>
        /\ n_extended = <<-4, -3, -2, -1, 0, 1, 2, 3, 4>>
        /\ x_extended = <<0, 0, 0, 0, 4, 2, -2, 6, 4>>
        /\ x_even = <<2, 3, -1, 1, 4, 1, -1, 3, 2>>
        /\ x_odd = <<-2, -3, 1, 1, 0, 1, -1, 3, 2>>

\* C7 amended: for x = [2,1,-1,3,2], n = [0..4]: n_extended = [-4..4],
\* x_even = [1,1.5,-0.5,0.5,2,0.5,-0.5,1.5,1] and
\* x_odd = [-1,-1.5,0.5,-0.5,0,0.5,-0.5,1.5,1] (the fourth value is -0.5),
\* being 0.5*(extended + reversed) and 0.5*(extended - reversed) for
\* extended = [0,0,0,0,2,1,-1,3,2], reversed = [2,3,-1,1,2,0,0,0,0]
\* (amplitudes below in halves).
C7_Example1ValuesAmended ==
    (DReturned /\ x = <<2, 1, -1, 3, 2>> /\ n = <<0, 1, 2, 3, 4>>) =>
        /\ n_extended = <<-4, -3, -2, -1, 0, 1, 2, 3, 4>>
        /\ x_extended = <<0, 0, 0, 0, 4, 2, -2, 6, 4>>
        /\ x_even = <<2, 3, -1, 1, 4, 1, -1, 3, 2>>
        /\ x_odd = <<-2, -3, 1, -1, 0, 1, -1, 3, 2>>
        /\ \A j \in 1..9 :
              /\ 2 * x_even[j] = <<0, 0, 0, 0, 4, 2, -2, 6, 4>>[j] + <<4, 6, -2, 2, 4, 0, 0, 0, 0>>[j]
              /\ 2 * x_odd[j] = <<0, 0, 0, 0, 4, 2, -2, 6, 4>>[j] - <<4, 6, -2, 2, 4, 0, 0, 0, 0>>[j]

\* C7 witness: decompose_signal has returned for the signal of example 1
C7_Witness ==
    dpc = "done" /\ x = <<2, 1, -1, 3, 2>> /\ n = <<0, 1, 2, 3, 4>>
    /\ Len(x_even) = 9

\* C8: the result for a periodic frequency whose fundamental period
\* exceeds max_period is never the value returned for a non-periodic
\* frequency.
C8_BeyondBoundIsDistinct ==
    (PReturned /\ ~omega.irr /\ omega.e = 0 /\ max_N >= 1
       /\ omega.q \div GCD(omega.p, omega.q) > max_N) =>
        \A om2 \in IrrationalOmegas :
            presult # is_periodic(om2, max_N, NoRounding(max_N))

\* C9: for every signal the drivers pass, the slice plotted in the
\* verification panel has length len(n) and equals x element for element.
C9_VerificationSliceIsOriginal ==
    (dpc = "plotted" /\ [x |-> x, n |-> n] \in DriverSignals) =>
        /\ Len(x_recon_positive) = Len(n)
        /\ \A k \in 1..Len(n) : x_recon_positive[k] = Fix(x[k])

\* C10: on indices -M..M an odd signal has an even part that is zero
\* everywhere and an odd part equal to the zero-extended signal; an even
\* signal has an odd part that is zero everywhere and an even part equal
\* to the zero-extended signal.
C10_OddAndEvenSignals ==
    (DReturned /\ SymmetricContiguous(x, n)) =>
        /\ IsOddSignal(x) =>
              \A j \in 1..Len(n_extended) :
                  /\ x_even[j] = 0
                  /\ x_odd[j] = ZeroExtendedAt(x, n, n_extended[j])
        /\ IsEvenSignal(x) =>
              \A j \in 1..Len(n_extended) :
                  /\ x_odd[j] = 0
                  /\ x_even[j] = ZeroExtendedAt(x, n, n_extended[j])

\* C10 witness: a returned decomposition of an odd, non-zero signal on
\* indices -2..2
C10_Witness ==
    dpc = "done" /\ SymmetricContiguous(x, n) /\ Len(x) = 5
    /\ IsOddSignal(x) /\ x[5] # 0 /\ x_odd[7] # 0

====
